---- MODULE Spec2Model ----
(***************************************************************************)
(* Model of the go-blockchain node: the UTXO ledger (UTXOSet, Blockchain,  *)
(* Transaction, Block) and the HTTP handlers that drive it.                *)
(*                                                                         *)
(* Five specifications share the state and the ledger operators:          *)
(*   Spec     the server as it runs: handlers execute in concurrent        *)
(*            goroutines, one step per access to the shared chain state;   *)
(*   SeqSpec  the same handlers, one request at a time;                    *)
(*   RestartSpec  one request at a time, the process ending and main       *)
(*            running again over the same block store at any moment;       *)
(*   ApiSpec  direct calls of Blockchain.AddBlock with lists of            *)
(*            transactions, each call atomic;                              *)
(*   LibSpec  calls of the functions that touch no shared state            *)
(*            (NewTransaction, Verify, ProofOfStake, NewBlockchain,        *)
(*            NewWallet, Serialize and Deserialize) on arguments drawn     *)
(*            from bounded sets; call holds the last call and its result.  *)
(***************************************************************************)
EXTENDS Integers, Sequences, FiniteSets, TLC

VARIABLES Blocks, UTXOs, saved, now, proc, out, call

vars == <<Blocks, UTXOs, saved, now, proc, out, call>>

----------------------------------------------------------------------------
(* Bounds *)

MaxBlocks == 3
MaxAmount == 2
MaxConcAmount == 1
MaxTxPerBlock == 2
MaxCandidates == 2
MaxOutputIndex == 1
MaxStake == 2
MaxSerLen == 1

(* Program constants *)

KeyLen == 64
SigLen == 64
CoordLen == 32

----------------------------------------------------------------------------
(* Universe of inputs *)

Wallets == {"A", "B"}
Procs == {1, 2}
Amounts == (-1) .. MaxAmount
ConcAmounts == 1 .. MaxConcAmount
Nil == <<>>

----------------------------------------------------------------------------
(* Helpers on sequences *)

Range(s) == {s[i] : i \in DOMAIN s}

RECURSIVE SumValues(_)
SumValues(S) ==
  IF S = {} THEN 0
  ELSE LET x == CHOOSE y \in S : TRUE IN x.Value + SumValues(S \ {x})

RECURSIVE SumOutputs(_)
SumOutputs(outputs) ==
  IF outputs = <<>> THEN 0 ELSE Head(outputs).Value + SumOutputs(Tail(outputs))

RECURSIVE Flatten(_)
Flatten(ss) == IF ss = <<>> THEN <<>> ELSE Head(ss) \o Flatten(Tail(ss))

(* every enumeration order of a finite set: the orders in which a Go map   *)
(* range may visit its entries                                             *)
Orders(S) ==
  {s \in [1 .. Cardinality(S) -> S] : Range(s) = S}

----------------------------------------------------------------------------
(* Wallet *)

(* key pairs whose X coordinate has a leading zero byte *)
ShortPairs == {"S"}

(* big.Int.Bytes() returns the minimal big-endian form: leading zero bytes *)
(* are dropped                                                             *)
XBytesLen(w) == IF w \in ShortPairs THEN CoordLen - 1 ELSE CoordLen
YBytesLen(w) == CoordLen

PublicKeyOf(w) == [k |-> w, len |-> XBytesLen(w) + YBytesLen(w)]
PrivateKeyOf(w) == [k |-> w]

(* the bytes of a key of pair k: its first 63 bytes, then its last byte.   *)
(* A coordinate is any 32 bytes, so the last byte of Y may be an ASCII     *)
(* digit: it is the digit 1 for the pair B and no digit for the pair A.    *)
LastKeyByte(k) == IF k = "B" THEN <<"digit", 1>> ELSE <<"byte", k>>

(* a key record holds the first len bytes of the pair's key, len >= 63 *)
KeyBytes(publicKey) ==
  IF publicKey.len >= CoordLen + CoordLen
  THEN <<<<"bytes", publicKey.k>>, LastKeyByte(publicKey.k)>>
  ELSE <<<<"bytes", publicKey.k>>>>

NewWallet(w) ==
  [PrivateKeyBytes |-> PrivateKeyOf(w), PublicKey |-> PublicKeyOf(w), Address |-> w]

GetPrivateKey(wallet) == wallet.PrivateKeyBytes

----------------------------------------------------------------------------
(* Transaction *)

NoSig == [signer |-> "", msg |-> Nil, len |-> 0]

(* fmt.Sprintf("%d", n): the decimal digits of n, with a sign when n < 0 *)
RECURSIVE Digits(_)
Digits(n) ==
  IF n < 0 THEN <<<<"minus", 0>>>> \o Digits(0 - n)
  ELSE IF n < 10 THEN <<<<"digit", n>>>>
  ELSE Digits(n \div 10) \o <<<<"digit", n % 10>>>>

(* the byte strings HashTransaction collects, in order; a transaction ID   *)
(* is the 32 bytes of a hash                                               *)
InputData(input) ==
  <<<<"hash", input.TransactionID>>>> \o Digits(input.OutputIndex)
  \o KeyBytes(input.PublicKey)

OutputData(output) == KeyBytes(output.PublicKey) \o Digits(output.Value)

(* a variant that also hashes the length of each input's signature *)
HashTransactionWithSignatures(tx) ==
  <<"txid",
    Flatten([i \in DOMAIN tx.Input |->
               InputData(tx.Input[i]) \o Digits(tx.Input[i].Signature.len)])
    \o Flatten([i \in DOMAIN tx.Output |-> OutputData(tx.Output[i])])>>

(* sha256.Sum256(bytes.Join(data, []byte{})): the strings are joined with  *)
(* no separator; sha256 is modelled as an injective tag over the joined    *)
(* bytes                                                                   *)
HashTransaction(tx) ==
  <<"txid",
    Flatten([i \in DOMAIN tx.Input |-> InputData(tx.Input[i])])
    \o Flatten([i \in DOMAIN tx.Output |-> OutputData(tx.Output[i])])>>

TrimmedCopy(tx) ==
  LET inputs == [i \in DOMAIN tx.Input |->
                   [TransactionID |-> tx.Input[i].TransactionID,
                    OutputIndex |-> tx.Input[i].OutputIndex,
                    Signature |-> NoSig,
                    PublicKey |-> tx.Input[i].PublicKey]]
      outputs == [i \in DOMAIN tx.Output |->
                   [Value |-> tx.Output[i].Value,
                    PublicKey |-> tx.Output[i].PublicKey]]
      txCopy == [ID |-> Nil, Input |-> inputs, Output |-> outputs]
  IN [txCopy EXCEPT !.ID = HashTransaction(txCopy)]

(* ecdsa.Sign then append(r.Bytes(), s.Bytes()...): big.Int.Bytes() drops   *)
(* leading zero bytes, so the result has siglen <= 64 bytes, siglen being   *)
(* decided by the random r and s                                            *)
Sign(tx, privateKey, siglen) ==
  [signer |-> privateKey.k, msg |-> TrimmedCopy(tx).ID, len |-> siglen]

ecdsaVerify(publicKey, hash, sig) ==
  sig.signer = publicKey.k /\ sig.msg = hash

(* a variant without the two length checks *)
VerifyInputAnyLength(input, txCopy) ==
  ecdsaVerify(input.PublicKey, txCopy.ID, input.Signature)

VerifyInput(input, txCopy) ==
  /\ input.PublicKey.len = KeyLen
  /\ input.Signature.len = SigLen
  /\ ecdsaVerify(input.PublicKey, txCopy.ID, input.Signature)

Verify(tx) ==
  LET txCopy == TrimmedCopy(tx)
  IN \A i \in DOMAIN tx.Input : VerifyInput(tx.Input[i], txCopy)

(* the selection loop of NewTransaction, lines 200-214 *)
RECURSIVE SelectInputs(_, _, _, _, _, _)
SelectInputs(utxos, i, pk, amount, totalInput, inputs) ==
  IF i > Len(utxos) THEN [totalInput |-> totalInput, inputs |-> inputs]
  ELSE IF utxos[i].PublicKey = pk
       THEN LET t == totalInput + utxos[i].Value
                ins == Append(inputs,
                         [TransactionID |-> utxos[i].TransactionID,
                          OutputIndex |-> utxos[i].OutputIndex,
                          Signature |-> NoSig,
                          PublicKey |-> pk])
            IN IF t >= amount
               THEN [totalInput |-> t, inputs |-> ins]
               ELSE SelectInputs(utxos, i + 1, pk, amount, t, ins)
       ELSE SelectInputs(utxos, i + 1, pk, amount, totalInput, inputs)

(* a variant that emits the change output whatever the change is *)
ChangeOutputAlways(totalInput, amount, pk) ==
  <<[Value |-> totalInput - amount, PublicKey |-> pk]>>

ChangeOutput(totalInput, amount, pk) ==
  IF totalInput > amount
  THEN <<[Value |-> totalInput - amount, PublicKey |-> pk]>>
  ELSE <<>>

(* a variant without the funds check of lines 216-218 *)
NewTransactionUnchecked(fromWallet, toPublicKey, amount, utxos, siglens) ==
  LET sel == SelectInputs(utxos, 1, fromWallet.PublicKey, amount, 0, <<>>)
      outputs == <<[Value |-> amount, PublicKey |-> toPublicKey]>>
                 \o ChangeOutput(sel.totalInput, amount, fromWallet.PublicKey)
      unsigned == [ID |-> Nil, Input |-> sel.inputs, Output |-> outputs]
      withID == [unsigned EXCEPT !.ID = HashTransaction(unsigned)]
      signed == [withID EXCEPT !.Input =
                   [i \in DOMAIN withID.Input |->
                      [withID.Input[i] EXCEPT !.Signature =
                         Sign(withID, GetPrivateKey(fromWallet), siglens[i])]]]
  IN [err |-> FALSE, have |-> sel.totalInput, need |-> amount, tx |-> signed]

(* NewTransaction: siglens[i] is the byte length of the signature the      *)
(* signer happens to return for input i                                    *)
NewTransaction(fromWallet, toPublicKey, amount, utxos, siglens) ==
  LET sel == SelectInputs(utxos, 1, fromWallet.PublicKey, amount, 0, <<>>)
      outputs == <<[Value |-> amount, PublicKey |-> toPublicKey]>>
                 \o ChangeOutput(sel.totalInput, amount, fromWallet.PublicKey)
      unsigned == [ID |-> Nil, Input |-> sel.inputs, Output |-> outputs]
      withID == [unsigned EXCEPT !.ID = HashTransaction(unsigned)]
      signed == [withID EXCEPT !.Input =
                   [i \in DOMAIN withID.Input |->
                      [withID.Input[i] EXCEPT !.Signature =
                         Sign(withID, GetPrivateKey(fromWallet), siglens[i])]]]
  IN IF sel.totalInput < amount
     THEN [err |-> TRUE, have |-> sel.totalInput, need |-> amount, tx |-> Nil]
     ELSE [err |-> FALSE, have |-> sel.totalInput, need |-> amount, tx |-> signed]

(* the generation transaction built by handleMintTokens, lines 498-505 *)
MintTx(wallet, amount) ==
  LET tx == [ID |-> Nil, Input |-> <<>>,
             Output |-> <<[Value |-> amount, PublicKey |-> wallet.PublicKey]>>]
  IN [tx EXCEPT !.ID = HashTransaction(tx)]

----------------------------------------------------------------------------
(* UTXOSet: a map from "txID_outputIndex" to the UTXO *)

UTXOKey(txID, outputIndex) == <<txID, outputIndex>>

NewUTXOSet == [k \in {} |-> Nil]

AddUTXO(us, txID, outputIndex, value, publicKey) ==
  LET key == UTXOKey(txID, outputIndex)
  IN [k \in DOMAIN us \cup {key} |->
        IF k = key
        THEN [TransactionID |-> txID, OutputIndex |-> outputIndex,
              Value |-> value, PublicKey |-> publicKey]
        ELSE us[k]]

RemoveUTXO(us, txID, outputIndex) ==
  [k \in DOMAIN us \ {UTXOKey(txID, outputIndex)} |-> us[k]]

(* the set of entries owned by address; the caller picks the iteration order *)
GetUTXOsForAddress(us, address) ==
  {us[k] : k \in {x \in DOMAIN us : us[x].PublicKey = address}}

(* a variant that adds up every entry of the set *)
GetBalanceAll(us, address) == SumValues({us[k] : k \in DOMAIN us})

GetBalance(us, address) == SumValues(GetUTXOsForAddress(us, address))

----------------------------------------------------------------------------
(* Block *)

(* a variant that leaves the transaction IDs out of the hash *)
calculateHashNoTransactions(prevHash, transactions, timestamp) ==
  <<"blockhash",
    (IF prevHash = <<>> THEN <<>> ELSE <<<<"hash", prevHash>>>>)
    \o <<<<"time", timestamp>>>> >>

(* sha256.Sum256(bytes.Join({PrevHash, txHashes, Timestamp}, []byte{})):   *)
(* the previous hash (no byte for the genesis block), the transaction IDs  *)
(* appended one after the other, the bytes of the timestamp string         *)
calculateHash(prevHash, transactions, timestamp) ==
  <<"blockhash",
    (IF prevHash = <<>> THEN <<>> ELSE <<<<"hash", prevHash>>>>)
    \o [i \in DOMAIN transactions |-> <<"hash", transactions[i].ID>>]
    \o <<<<"time", timestamp>>>> >>

NewBlock(transactions, prevHash, validator, timestamp) ==
  [Timestamp |-> timestamp, Transactions |-> transactions,
   Hash |-> calculateHash(prevHash, transactions, timestamp),
   PrevHash |-> prevHash, Validator |-> validator, Nonce |-> 0]

----------------------------------------------------------------------------
(* Blockchain *)

(* a variant that removes no spent output *)
UpdateOpsAddOnly(tx) ==
  [i \in DOMAIN tx.Output |->
     [op |-> "add", txID |-> tx.ID, index |-> i - 1,
      value |-> tx.Output[i].Value, pk |-> tx.Output[i].PublicKey]]

(* the operations UpdateUTXOs performs for one transaction, in order:      *)
(* a removal per input, then an addition per output (index from 0)          *)
UpdateOps(tx) ==
  [i \in DOMAIN tx.Input |->
     [op |-> "remove", txID |-> tx.Input[i].TransactionID,
      index |-> tx.Input[i].OutputIndex, value |-> 0, pk |-> Nil]]
  \o
  [i \in DOMAIN tx.Output |->
     [op |-> "add", txID |-> tx.ID, index |-> i - 1,
      value |-> tx.Output[i].Value, pk |-> tx.Output[i].PublicKey]]

BlockOps(transactions) ==
  Flatten([i \in DOMAIN transactions |-> UpdateOps(transactions[i])])

ApplyOp(us, o) ==
  IF o.op = "remove"
  THEN RemoveUTXO(us, o.txID, o.index)
  ELSE AddUTXO(us, o.txID, o.index, o.value, o.pk)

RECURSIVE ApplyOps(_, _)
ApplyOps(us, ops) ==
  IF ops = <<>> THEN us ELSE ApplyOps(ApplyOp(us, Head(ops)), Tail(ops))

UpdateUTXOs(us, block) == ApplyOps(us, BlockOps(block.Transactions))

(* a variant that always links to the first block *)
PrevBlockFirst(blocks) == blocks[1]

PrevBlock(blocks) == blocks[Len(blocks)]

VerifyAll(transactions) == \A i \in DOMAIN transactions : Verify(transactions[i])

GenesisBlock == NewBlock(<<>>, <<>>, "genesis-validator", 0)

----------------------------------------------------------------------------
(* The node: main() builds the genesis block and the chain, saves the      *)
(* genesis block and starts the server.  Blocks and UTXOs are the fields   *)
(* of the global bc, saved is the content of the block store, now the      *)
(* clock NewBlock reads, proc the goroutines serving requests and out the  *)
(* response (or panic) the step just taken produced.  call is the last     *)
(* direct call of a library function, with its arguments and result.      *)

SigLens == {SigLen - 1, SigLen}
Addresses == Wallets \cup {"nobody"}

(* db.GetWallet: the wallets stored by earlier POST /wallet requests *)
HasWallet(address) == address \in Wallets
GetWallet(address) == NewWallet(address)

(* a goroutine serving a request: its position, the request, its locals,   *)
(* and what the ledger was when the request arrived (sum0, bal0, len0,     *)
(* tip0), kept for the properties only                                     *)
IdleProc ==
  [pc |-> "idle", kind |-> "none", from |-> "", to |-> "", amount |-> 0,
   sum0 |-> 0, bal0 |-> Nil, len0 |-> 0, tip0 |-> Nil,
   tx |-> Nil, blk |-> Nil, k |-> 0, rd |-> Nil]

NoOut ==
  [result |-> "none", kind |-> "none", status |-> 0, error |-> "", address |-> "",
   bal |-> 0, amount |-> 0, ntx |-> 0, nvalid |-> 0]

Response(kind, status) == [NoOut EXCEPT !.result = "response", !.kind = kind, !.status = status]

Panic(kind) == [NoOut EXCEPT !.result = "panic", !.kind = kind]

NoCall == [fn |-> "none"]

(* a variant that does not process the genesis block *)
NewBlockchainNoUpdate(genesisBlock) ==
  [Blocks |-> <<genesisBlock>>, UTXOs |-> NewUTXOSet]

NewBlockchain(genesisBlock) ==
  [Blocks |-> <<genesisBlock>>, UTXOs |-> UpdateUTXOs(NewUTXOSet, genesisBlock)]

Init ==
  /\ Blocks = NewBlockchain(GenesisBlock).Blocks
  /\ UTXOs = NewBlockchain(GenesisBlock).UTXOs
  /\ saved = {GenesisBlock}
  /\ now = 1
  /\ proc = [p \in Procs |-> IdleProc]
  /\ out = NoOut
  /\ call = NoCall

InFlight(p) == proc[p].pc /= "idle"

(* a request is served by the lowest free goroutine slot *)
CanStart(p) ==
  /\ ~InFlight(p)
  /\ \A q \in Procs : q < p => InFlight(q)

(* the requests that may still add a block: NewBlock has been called       *)
(* now - 1 times, and every request not yet past it may call it            *)
Pending == {q \in Procs : proc[q].pc \in {"t_balance", "t_utxos", "ab_verify"}}

CanAddBlock == (now - 1) + Cardinality(Pending) < MaxBlocks

Quiet == \A q \in Procs : ~InFlight(q)

TotalValue(us) == SumValues({us[k] : k \in DOMAIN us})

Balances(us) == [w \in Wallets |-> GetBalance(us, GetWallet(w).PublicKey)]

----------------------------------------------------------------------------
(* handleTransaction *)

(* lines 211-269: parameters, sender wallet, private key, recipient wallet *)
TransferStatus(from, to, key, valid) ==
  IF ~valid THEN 400
  ELSE IF ~HasWallet(from) THEN 404
  ELSE IF key /= from THEN 400
  ELSE IF ~HasWallet(to) THEN 404
  ELSE 0

TransferStart(p, from, to, amount, key, valid) ==
  /\ CanStart(p)
  /\ CanAddBlock
  /\ LET st == TransferStatus(from, to, key, valid)
     IN IF st /= 0
        THEN /\ out' = Response("transfer", st)
             /\ proc' = proc
        ELSE /\ out' = NoOut
             /\ proc' = [proc EXCEPT ![p] =
                  [IdleProc EXCEPT !.pc = "t_balance", !.kind = "transfer",
                                   !.from = from, !.to = to, !.amount = amount,
                                   !.sum0 = TotalValue(UTXOs),
                                   !.bal0 = Balances(UTXOs),
                                   !.len0 = Len(Blocks),
                                   !.tip0 = PrevBlock(Blocks).Hash]]
  /\ UNCHANGED <<call, Blocks, UTXOs, saved, now>>

(* lines 271-279 *)
TransferBalance(p) ==
  /\ proc[p].pc = "t_balance"
  /\ LET balance == GetBalance(UTXOs, GetWallet(proc[p].from).PublicKey)
     IN IF balance < proc[p].amount
        THEN /\ out' = [Response("transfer", 400) EXCEPT
                            !.error = "Insufficient funds",
                            !.bal = balance, !.amount = proc[p].amount]
             /\ proc' = [proc EXCEPT ![p] = IdleProc]
        ELSE /\ out' = NoOut
             /\ proc' = [proc EXCEPT ![p] = [@ EXCEPT !.pc = "t_utxos"]]
  /\ UNCHANGED <<call, Blocks, UTXOs, saved, now>>

(* lines 281-291: the map is ranged over in any order; each signature has  *)
(* the length its random r and s give it                                   *)
TransferBuild(p) ==
  /\ proc[p].pc = "t_utxos"
  /\ LET fromWallet == GetWallet(proc[p].from)
         toWallet == GetWallet(proc[p].to)
     IN \E utxos \in Orders(GetUTXOsForAddress(UTXOs, fromWallet.PublicKey)) :
          LET n == Len(SelectInputs(utxos, 1, fromWallet.PublicKey,
                                    proc[p].amount, 0, <<>>).inputs)
          IN \E siglens \in [1 .. n -> SigLens] :
               LET r == NewTransaction(fromWallet, toWallet.PublicKey,
                                       proc[p].amount, utxos, siglens)
               IN IF r.err
                  THEN /\ out' = [Response("transfer", 400) EXCEPT
                                      !.error = "insufficient funds",
                                      !.bal = r.have, !.amount = r.need]
                       /\ proc' = [proc EXCEPT ![p] = IdleProc]
                  ELSE /\ out' = NoOut
                       /\ proc' = [proc EXCEPT ![p] =
                            [@ EXCEPT !.pc = "ab_verify", !.tx = r.tx]]
  /\ UNCHANGED <<call, Blocks, UTXOs, saved, now>>

----------------------------------------------------------------------------
(* handleMintTokens *)

(* lines 456-494 *)
MintStatus(address, key, valid) ==
  IF ~valid THEN 400
  ELSE IF ~HasWallet(address) THEN 404
  ELSE IF key /= address THEN 400
  ELSE 0

MintStart(p, address, amount, key, valid) ==
  /\ CanStart(p)
  /\ CanAddBlock
  /\ LET st == MintStatus(address, key, valid)
     IN IF st /= 0
        THEN /\ out' = Response("mint", st)
             /\ proc' = proc
        ELSE /\ out' = NoOut
             /\ proc' = [proc EXCEPT ![p] =
                  [IdleProc EXCEPT !.pc = "ab_verify", !.kind = "mint",
                                   !.to = address, !.amount = amount,
                                   !.bal0 = Balances(UTXOs),
                                   !.len0 = Len(Blocks),
                                   !.tip0 = PrevBlock(Blocks).Hash,
                                   !.tx = MintTx(GetWallet(address), amount)]]
  /\ UNCHANGED <<call, Blocks, UTXOs, saved, now>>

----------------------------------------------------------------------------
(* Blockchain.AddBlock as the handlers run it, one step per access to the  *)
(* shared chain                                                            *)

Validator(p) ==
  IF proc[p].kind = "mint" THEN proc[p].tx.Output[1].PublicKey ELSE "test-validator"

(* lines 86-94: the verification loop, the read of the tip, NewBlock *)
AddBlockVerify(p) ==
  /\ proc[p].pc = "ab_verify"
  /\ IF ~VerifyAll(<<proc[p].tx>>)
     THEN /\ out' = Panic(proc[p].kind)
          /\ proc' = [proc EXCEPT ![p] = IdleProc]
          /\ now' = now
     ELSE /\ out' = NoOut
          /\ proc' = [proc EXCEPT ![p] =
                [@ EXCEPT !.pc = "ab_update", !.k = 1,
                          !.blk = NewBlock(<<proc[p].tx>>, PrevBlock(Blocks).Hash,
                                           Validator(p), now)]]
          /\ now' = now + 1
  /\ UNCHANGED <<call, Blocks, UTXOs, saved>>

(* line 97: UpdateUTXOs, one RemoveUTXO or AddUTXO per step *)
AddBlockUpdate(p) ==
  /\ proc[p].pc = "ab_update"
  /\ LET ops == BlockOps(proc[p].blk.Transactions)
     IN /\ UTXOs' = ApplyOp(UTXOs, ops[proc[p].k])
        /\ proc' = [proc EXCEPT ![p] =
             IF proc[p].k = Len(ops)
             THEN [@ EXCEPT !.pc = "ab_append", !.k = 0]
             ELSE [@ EXCEPT !.k = @ + 1]]
  /\ out' = NoOut
  /\ UNCHANGED <<call, Blocks, saved, now>>

(* line 99: bc.Blocks = append(bc.Blocks, newBlock) reads the slice ...     *)
AddBlockAppendRead(p) ==
  /\ proc[p].pc = "ab_append"
  /\ proc' = [proc EXCEPT ![p] = [@ EXCEPT !.pc = "ab_write", !.rd = Blocks]]
  /\ out' = NoOut
  /\ UNCHANGED <<call, Blocks, UTXOs, saved, now>>

(* ... and stores the extended slice *)
AddBlockAppendWrite(p) ==
  /\ proc[p].pc = "ab_write"
  /\ Blocks' = Append(proc[p].rd, proc[p].blk)
  /\ proc' = [proc EXCEPT ![p] = [@ EXCEPT !.pc = "save", !.rd = Nil]]
  /\ out' = NoOut
  /\ UNCHANGED <<call, UTXOs, saved, now>>

(* db.SaveBlock succeeds: 201 *)
SaveBlock(p) ==
  /\ proc[p].pc = "save"
  /\ saved' = saved \cup {proc[p].blk}
  /\ out' = Response(proc[p].kind, 201)
  /\ proc' = [proc EXCEPT ![p] = IdleProc]
  /\ UNCHANGED <<call, Blocks, UTXOs, now>>

(* db.SaveBlock returns an error: 500 *)
SaveBlockFails(p) ==
  /\ proc[p].pc = "save"
  /\ out' = Response(proc[p].kind, 500)
  /\ proc' = [proc EXCEPT ![p] = IdleProc]
  /\ UNCHANGED <<call, Blocks, UTXOs, saved, now>>

----------------------------------------------------------------------------
(* handleGetWalletBalance *)

GetWalletBalance(p, address) ==
  /\ CanStart(p)
  /\ out' = IF ~HasWallet(address)
            THEN Response("balance", 404)
            ELSE [Response("balance", 200) EXCEPT
                    !.address = address,
                    !.bal = GetBalance(UTXOs, GetWallet(address).PublicKey)]
  /\ UNCHANGED <<call, Blocks, UTXOs, saved, now, proc>>

----------------------------------------------------------------------------
(* Specifications *)

Step(p) ==
  \/ TransferBalance(p)
  \/ TransferBuild(p)
  \/ AddBlockVerify(p)
  \/ AddBlockUpdate(p)
  \/ AddBlockAppendRead(p)
  \/ AddBlockAppendWrite(p)
  \/ SaveBlock(p)

Request(p, addresses, amounts, valids) ==
  \/ \E from \in addresses, to \in addresses, amount \in amounts,
        key \in Wallets, valid \in valids :
       TransferStart(p, from, to, amount, key, valid)
  \/ \E address \in addresses, amount \in amounts, key \in Wallets,
        valid \in valids :
       MintStart(p, address, amount, key, valid)
  \/ \E address \in addresses : GetWalletBalance(p, address)

(* the server: requests are served concurrently; the requests are          *)
(* well-formed and the block store is healthy                              *)
Next == \E p \in Procs : Request(p, Wallets, ConcAmounts, {TRUE}) \/ Step(p)

Spec == Init /\ [][Next]_vars

(* one request at a time; any request; the block store may fail *)
NextSeq ==
  \E p \in Procs :
    \/ Quiet /\ Request(p, Addresses, Amounts, BOOLEAN)
    \/ Step(p)
    \/ SaveBlockFails(p)

SeqSpec == Init /\ [][NextSeq]_vars

----------------------------------------------------------------------------
(* The process ends and main runs again over the same block store          *)

(* main: a genesis block made at the time of the start, a blockchain made  *)
(* of it alone, the store opened, the genesis block saved; no block is     *)
(* read back from the store. The goroutines of the ended process are gone. *)
main ==
  /\ now <= MaxBlocks
  /\ LET genesisBlock == NewBlock(<<>>, <<>>, "genesis-validator", now)
         bc == NewBlockchain(genesisBlock)
     IN /\ Blocks' = bc.Blocks
        /\ UTXOs' = bc.UTXOs
        /\ saved' = saved \cup {genesisBlock}
  /\ now' = now + 1
  /\ proc' = [p \in Procs |-> IdleProc]
  /\ out' = [NoOut EXCEPT !.result = "start"]
  /\ UNCHANGED call

(* well-formed requests one at a time, and restarts at any moment *)
NextRestart ==
  \/ \E p \in Procs :
       \/ Quiet /\ Request(p, Wallets, 1 .. MaxAmount, {TRUE})
       \/ Step(p)
  \/ main

RestartSpec == Init /\ [][NextRestart]_vars

----------------------------------------------------------------------------
(* Blockchain.AddBlock called directly, each call running to its end       *)

(* a variant that applies each transaction as soon as it has verified *)
AddBlockEager(blocks, us, transactions, validator, timestamp) ==
  LET bad == {i \in DOMAIN transactions : ~Verify(transactions[i])}
      firstBad == IF bad = {} THEN Len(transactions) + 1
                  ELSE CHOOSE i \in bad : \A j \in bad : i <= j
      prevBlock == PrevBlock(blocks)
      applied == NewBlock(SubSeq(transactions, 1, firstBad - 1), prevBlock.Hash,
                          validator, timestamp)
  IN IF bad /= {}
     THEN [panic |-> TRUE, Blocks |-> blocks, UTXOs |-> UpdateUTXOs(us, applied)]
     ELSE [panic |-> FALSE, Blocks |-> Append(blocks, applied),
           UTXOs |-> UpdateUTXOs(us, applied)]

AddBlock(blocks, us, transactions, validator, timestamp) ==
  IF ~VerifyAll(transactions)
  THEN [panic |-> TRUE, Blocks |-> blocks, UTXOs |-> us]
  ELSE LET prevBlock == PrevBlock(blocks)
           newBlock == NewBlock(transactions, prevBlock.Hash, validator, timestamp)
       IN [panic |-> FALSE,
           Blocks |-> Append(blocks, newBlock),
           UTXOs |-> UpdateUTXOs(us, newBlock)]

ChainTxs(blocks) == Flatten([i \in DOMAIN blocks |-> blocks[i].Transactions])

(* the transactions a caller can hand to AddBlock: generation              *)
(* transactions, the results of NewTransaction on the current UTXOs (with  *)
(* whatever signature lengths the signer returned), and transactions       *)
(* that are already in the chain                                           *)
TransferTxs ==
  {r.tx : r \in
     {x \in UNION UNION UNION
        {{{{NewTransaction(GetWallet(from), GetWallet(to).PublicKey, amount, utxos,
                           siglens)
              : siglens \in [1 .. Len(utxos) -> SigLens]}
             : utxos \in Orders(GetUTXOsForAddress(UTXOs, GetWallet(from).PublicKey))}
            : amount \in ConcAmounts}
           : from \in Wallets, to \in Wallets}
      : ~x.err}}

(* transactions a caller builds and signs with its own key on an entry of  *)
(* the UTXOSet that another key owns: NewTransaction is handed the entry   *)
(* with the caller's key in place of the owner's, and pays the caller      *)
ForeignSpendTxs ==
  {NewTransaction(GetWallet(from), GetWallet(from).PublicKey, UTXOs[k].Value,
                  <<[UTXOs[k] EXCEPT !.PublicKey = GetWallet(from).PublicKey]>>,
                  <<SigLen>>).tx
     : <<from, k>> \in {x \in Wallets \X DOMAIN UTXOs :
                          UTXOs[x[2]].PublicKey /= GetWallet(x[1]).PublicKey}}

Candidates ==
  {MintTx(GetWallet(w), n) : w \in Wallets, n \in ConcAmounts}
  \cup TransferTxs
  \cup Range(ChainTxs(Blocks))
  \cup ForeignSpendTxs

TxLists == UNION {[1 .. n -> Candidates] : n \in 1 .. MaxTxPerBlock}

ApiAddBlock(transactions) ==
  /\ now <= MaxBlocks
  /\ LET r == AddBlock(Blocks, UTXOs, transactions, "test-validator", now)
     IN /\ Blocks' = r.Blocks
        /\ UTXOs' = r.UTXOs
        /\ now' = IF r.panic THEN now ELSE now + 1
        /\ out' = [(IF r.panic THEN Panic("addblock") ELSE Response("addblock", 0))
                     EXCEPT !.ntx = Len(transactions),
                            !.nvalid = Cardinality({i \in DOMAIN transactions :
                                                      Verify(transactions[i])})]
  /\ UNCHANGED <<call, saved, proc>>

NextApi == \E transactions \in TxLists : ApiAddBlock(transactions)

ApiSpec == Init /\ [][NextApi]_vars

----------------------------------------------------------------------------
(* Consensus: ProofOfStake.  validators maps a name to its PosValidator,   *)
(* order is the order in which the two range loops visit the map, random   *)
(* the number rand.Int returned.                                           *)

ValidatorNames == {"v1", "v2", "v3"}

(* every registry over the names, a validator's key being its name *)
Registries ==
  UNION {{[n \in S |-> [PublicKey |-> n, Stake |-> stake[n]]]
            : stake \in [S -> 0 .. MaxStake]}
           : S \in SUBSET ValidatorNames}

RECURSIVE TotalStake(_, _)
TotalStake(validators, names) ==
  IF names = {} THEN 0
  ELSE LET n == CHOOSE x \in names : TRUE
       IN validators[n].Stake + TotalStake(validators, names \ {n})

(* a variant whose loop does not subtract the stake from the draw *)
RECURSIVE SelectValidatorNoSubtract(_, _, _, _)
SelectValidatorNoSubtract(validators, order, i, random) ==
  IF i > Len(order) THEN [panic |-> TRUE, key |-> ""]
  ELSE IF random <= 0
       THEN [panic |-> FALSE, key |-> validators[order[i]].PublicKey]
       ELSE SelectValidatorNoSubtract(validators, order, i + 1, random)

(* lines 332-342: the selection loop and the panic after it *)
RECURSIVE SelectValidator(_, _, _, _)
SelectValidator(validators, order, i, random) ==
  IF i > Len(order) THEN [panic |-> TRUE, key |-> ""]
  ELSE LET r == random - validators[order[i]].Stake
       IN IF r <= 0
          THEN [panic |-> FALSE, key |-> validators[order[i]].PublicKey]
          ELSE SelectValidator(validators, order, i + 1, r)

(* rand.Int panics when its bound is not positive *)
ProofOfStake(validators, order, random) ==
  LET totalStake == TotalStake(validators, DOMAIN validators)
  IN IF totalStake <= 0
     THEN [panic |-> TRUE, key |-> ""]
     ELSE SelectValidator(validators, order, 1, random)

----------------------------------------------------------------------------
(* Direct calls of the library functions: one call on fresh arguments,     *)
(* and Verify on what NewTransaction returned                              *)

LibWallets == Wallets \cup ShortPairs
LibAmounts == (-1) .. (MaxAmount + 1)

(* transaction IDs that candidate UTXOs refer to *)
RefIDs == {MintTx(NewWallet(w), 1).ID : w \in Wallets}

CandidateUTXOs ==
  {[TransactionID |-> id, OutputIndex |-> i, Value |-> v, PublicKey |-> PublicKeyOf(o)]
     : id \in RefIDs, i \in 0 .. MaxOutputIndex, v \in 1 .. MaxAmount, o \in LibWallets}

(* the lists a caller takes from a UTXOSet: no identity key occurs twice *)
CandidateLists ==
  {l \in UNION {[1 .. n -> CandidateUTXOs] : n \in 0 .. MaxCandidates} :
     \A i \in DOMAIN l, j \in DOMAIN l :
       (i /= j) => (UTXOKey(l[i].TransactionID, l[i].OutputIndex)
                     /= UTXOKey(l[j].TransactionID, l[j].OutputIndex))}

CallNewTransaction(from, to, amount, utxos) ==
  /\ call = NoCall
  /\ LET n == Len(SelectInputs(utxos, 1, PublicKeyOf(from), amount, 0, <<>>).inputs)
     IN \E siglens \in [1 .. n -> SigLens] :
          call' = [fn |-> "NewTransaction", fromWallet |-> NewWallet(from),
                   toPublicKey |-> PublicKeyOf(to), amount |-> amount, utxos |-> utxos,
                   ret |-> NewTransaction(NewWallet(from), PublicKeyOf(to), amount,
                                          utxos, siglens)]
  /\ UNCHANGED <<Blocks, UTXOs, saved, now, proc, out>>

(* Verify on the transaction NewTransaction returned *)
CallVerify ==
  /\ call.fn = "NewTransaction"
  /\ ~call.ret.err
  /\ call' = [fn |-> "Verify", signed |-> call.ret.tx, tx |-> call.ret.tx,
              ret |-> Verify(call.ret.tx)]
  /\ UNCHANGED <<Blocks, UTXOs, saved, now, proc, out>>

(* the owner keys and values a signed output can be given afterwards: a    *)
(* key of a pair, a key without its last byte, a value with a digit put    *)
(* before it                                                               *)
TamperKeys ==
  {PublicKeyOf(w) : w \in Wallets} \cup {[k |-> w, len |-> KeyLen - 1] : w \in Wallets}

TamperValues == (0 .. MaxAmount) \cup {10 + v : v \in 1 .. MaxAmount}

(* Verify on the transaction NewTransaction returned, after output i has   *)
(* been changed                                                            *)
CallVerifyChanged(i, value, owner) ==
  /\ call.fn = "NewTransaction"
  /\ ~call.ret.err
  /\ i \in DOMAIN call.ret.tx.Output
  /\ [Value |-> value, PublicKey |-> owner] /= call.ret.tx.Output[i]
  /\ LET tx == [call.ret.tx EXCEPT !.Output[i] = [Value |-> value, PublicKey |-> owner]]
     IN call' = [fn |-> "Verify", signed |-> call.ret.tx, tx |-> tx, ret |-> Verify(tx)]
  /\ UNCHANGED <<Blocks, UTXOs, saved, now, proc, out>>

CallProofOfStake(validators, order) ==
  /\ call = NoCall
  /\ LET totalStake == TotalStake(validators, DOMAIN validators)
     IN \E random \in 0 .. (IF totalStake > 0 THEN totalStake - 1 ELSE 0) :
          call' = [fn |-> "ProofOfStake", validators |-> validators, order |-> order,
                   random |-> random,
                   ret |-> ProofOfStake(validators, order, random)]
  /\ UNCHANGED <<Blocks, UTXOs, saved, now, proc, out>>

(* the genesis blocks a caller can make: any list of generation           *)
(* transactions, the empty one included                                    *)
GenesisTxLists ==
  UNION {[1 .. n -> {MintTx(NewWallet(w), v) : w \in LibWallets, v \in 1 .. MaxAmount}]
           : n \in 0 .. MaxTxPerBlock}

CallNewBlockchain(transactions) ==
  /\ call = NoCall
  /\ LET genesisBlock == NewBlock(transactions, <<>>, "genesis-validator", 0)
     IN call' = [fn |-> "NewBlockchain", genesisBlock |-> genesisBlock,
                 ret |-> NewBlockchain(genesisBlock)]
  /\ UNCHANGED <<Blocks, UTXOs, saved, now, proc, out>>

(* NewWallet on the key pair the generator drew *)
CallNewWallet(pair) ==
  /\ call = NoCall
  /\ call' = [fn |-> "NewWallet", pair |-> pair, ret |-> NewWallet(pair)]
  /\ UNCHANGED <<Blocks, UTXOs, saved, now, proc, out>>

(* Serialize and Deserialize: encoding/gob.  A Go slice is nil, or empty   *)
(* and not nil, or holds elements.  gob sends the fields of a struct that  *)
(* are not zero, a slice of length 0 (nil or not) counting as zero, and    *)
(* the decoder leaves a field that was not sent at the zero value of the   *)
(* fresh struct, which for a slice is nil.  The elements of a slice are    *)
(* all sent.                                                               *)
NilSlice == [nil |-> TRUE, elems |-> <<>>]

EmptySlice == [nil |-> FALSE, elems |-> <<>>]

MakeSlice(elems) == [nil |-> FALSE, elems |-> elems]

gobFields(sent) == {f \in DOMAIN sent : sent[f]}

gobSlice(wire, f) == IF f \in DOMAIN wire THEN MakeSlice(wire[f]) ELSE NilSlice

gobInt(wire, f) == IF f \in DOMAIN wire THEN wire[f] ELSE 0

gobString(wire, f) == IF f \in DOMAIN wire THEN wire[f] ELSE ""

EncodeTxInput(in) ==
  [f \in gobFields([TransactionID |-> in.TransactionID.elems /= <<>>,
                    OutputIndex |-> in.OutputIndex /= 0,
                    Signature |-> in.Signature.elems /= <<>>,
                    PublicKey |-> in.PublicKey.elems /= <<>>]) |->
     CASE f = "TransactionID" -> in.TransactionID.elems
       [] f = "OutputIndex" -> in.OutputIndex
       [] f = "Signature" -> in.Signature.elems
       [] f = "PublicKey" -> in.PublicKey.elems]

DecodeTxInput(wire) ==
  [TransactionID |-> gobSlice(wire, "TransactionID"),
   OutputIndex |-> gobInt(wire, "OutputIndex"),
   Signature |-> gobSlice(wire, "Signature"),
   PublicKey |-> gobSlice(wire, "PublicKey")]

EncodeTxOutput(o) ==
  [f \in gobFields([Value |-> o.Value /= 0, PublicKey |-> o.PublicKey.elems /= <<>>]) |->
     CASE f = "Value" -> o.Value
       [] f = "PublicKey" -> o.PublicKey.elems]

DecodeTxOutput(wire) ==
  [Value |-> gobInt(wire, "Value"), PublicKey |-> gobSlice(wire, "PublicKey")]

SerializeTransaction(tx) ==
  [f \in gobFields([ID |-> tx.ID.elems /= <<>>,
                    Input |-> tx.Input.elems /= <<>>,
                    Output |-> tx.Output.elems /= <<>>]) |->
     CASE f = "ID" -> tx.ID.elems
       [] f = "Input" -> [i \in DOMAIN tx.Input.elems |-> EncodeTxInput(tx.Input.elems[i])]
       [] f = "Output" -> [i \in DOMAIN tx.Output.elems |-> EncodeTxOutput(tx.Output.elems[i])]]

DeserializeTransaction(data) ==
  [ID |-> gobSlice(data, "ID"),
   Input |-> IF "Input" \in DOMAIN data
             THEN MakeSlice([i \in DOMAIN data["Input"] |-> DecodeTxInput(data["Input"][i])])
             ELSE NilSlice,
   Output |-> IF "Output" \in DOMAIN data
              THEN MakeSlice([i \in DOMAIN data["Output"] |-> DecodeTxOutput(data["Output"][i])])
              ELSE NilSlice]

SerializeBlock(b) ==
  [f \in gobFields([Timestamp |-> b.Timestamp /= "",
                    Transactions |-> b.Transactions.elems /= <<>>,
                    Hash |-> b.Hash.elems /= <<>>,
                    PrevHash |-> b.PrevHash.elems /= <<>>,
                    Validator |-> b.Validator.elems /= <<>>,
                    Nonce |-> b.Nonce /= 0]) |->
     CASE f = "Timestamp" -> b.Timestamp
       [] f = "Transactions" ->
            [i \in DOMAIN b.Transactions.elems |-> SerializeTransaction(b.Transactions.elems[i])]
       [] f = "Hash" -> b.Hash.elems
       [] f = "PrevHash" -> b.PrevHash.elems
       [] f = "Validator" -> b.Validator.elems
       [] f = "Nonce" -> b.Nonce]

DeserializeBlock(data) ==
  [Timestamp |-> gobString(data, "Timestamp"),
   Transactions |->
     IF "Transactions" \in DOMAIN data
     THEN MakeSlice([i \in DOMAIN data["Transactions"] |->
                       DeserializeTransaction(data["Transactions"][i])])
     ELSE NilSlice,
   Hash |-> gobSlice(data, "Hash"),
   PrevHash |-> gobSlice(data, "PrevHash"),
   Validator |-> gobSlice(data, "Validator"),
   Nonce |-> gobInt(data, "Nonce")]

SerializeWallet(w) ==
  [f \in gobFields([PrivateKeyBytes |-> w.PrivateKeyBytes.elems /= <<>>,
                    PublicKey |-> w.PublicKey.elems /= <<>>,
                    Address |-> w.Address /= ""]) |->
     CASE f = "PrivateKeyBytes" -> w.PrivateKeyBytes.elems
       [] f = "PublicKey" -> w.PublicKey.elems
       [] f = "Address" -> w.Address]

DeserializeWallet(data) ==
  [PrivateKeyBytes |-> gobSlice(data, "PrivateKeyBytes"),
   PublicKey |-> gobSlice(data, "PublicKey"),
   Address |-> gobString(data, "Address")]

(* the values handed to Serialize: every byte field nil, empty or one      *)
(* byte long, every list nil, empty or up to MaxSerLen long                *)
ByteFields == {NilSlice, EmptySlice, MakeSlice(<<1>>)}

Slices(S) ==
  {NilSlice} \cup {MakeSlice(l) : l \in UNION {[1 .. n -> S] : n \in 0 .. MaxSerLen}}

SerTxInputs ==
  [TransactionID : ByteFields, OutputIndex : 0 .. MaxOutputIndex,
   Signature : ByteFields, PublicKey : ByteFields]

SerTxOutputs == [Value : 0 .. MaxAmount, PublicKey : ByteFields]

SerTransactions ==
  [ID : ByteFields, Input : Slices(SerTxInputs), Output : Slices(SerTxOutputs)]

(* the transactions of the blocks: no input, no output or one output *)
SerBlockTransactions ==
  [ID : ByteFields, Input : {NilSlice, EmptySlice},
   Output : {NilSlice, EmptySlice,
             MakeSlice(<<[Value |-> 1, PublicKey |-> MakeSlice(<<1>>)]>>)}]

SerBlocks ==
  [Timestamp : {"", "t"}, Transactions : Slices(SerBlockTransactions),
   Hash : ByteFields, PrevHash : ByteFields, Validator : ByteFields, Nonce : {0, 1}]

SerWallets == [PrivateKeyBytes : ByteFields, PublicKey : ByteFields, Address : {"", "0x"}]

CallSerializeBlock(b) ==
  /\ call = NoCall
  /\ call' = [fn |-> "Block.Serialize", x |-> b, ret |-> DeserializeBlock(SerializeBlock(b))]
  /\ UNCHANGED <<Blocks, UTXOs, saved, now, proc, out>>

CallSerializeTransaction(tx) ==
  /\ call = NoCall
  /\ call' = [fn |-> "Transaction.Serialize", x |-> tx,
              ret |-> DeserializeTransaction(SerializeTransaction(tx))]
  /\ UNCHANGED <<Blocks, UTXOs, saved, now, proc, out>>

CallSerializeWallet(w) ==
  /\ call = NoCall
  /\ call' = [fn |-> "Wallet.Serialize", x |-> w, ret |-> DeserializeWallet(SerializeWallet(w))]
  /\ UNCHANGED <<Blocks, UTXOs, saved, now, proc, out>>

(* fmt.Sprintf("%x", b): the bytes in hexadecimal, and the bytes a reader  *)
(* gets back from it                                                       *)
Hex(b) == <<"hex", b>>

FromHex(h) == IF h = Nil THEN Nil ELSE h[2]

(* handleCreateWallet: a wallet of the pair the generator drew is saved    *)
(* under "wallet_" + address (store is what SaveWallet wrote, Nil when it  *)
(* failed) and the response is built.  The wallets that requests refer to  *)
(* are the ones stored this way earlier.                                   *)
CreateWallet(pair, saveFails) ==
  /\ call = NoCall
  /\ LET wallet == NewWallet(pair)
     IN call' =
          [fn |-> "handleCreateWallet", wallet |-> wallet,
           store |-> IF saveFails THEN Nil ELSE <<<<"wallet_", wallet.Address>>, wallet>>,
           ret |-> IF saveFails
                   THEN [status |-> 500, error |-> "Error saving wallet", address |-> "",
                         publicKey |-> Nil, privateKey |-> Nil]
                   ELSE [status |-> 201, error |-> "", address |-> wallet.Address,
                         publicKey |-> Hex(wallet.PublicKey),
                         privateKey |-> Hex(wallet.PrivateKeyBytes)]]
  /\ UNCHANGED <<Blocks, UTXOs, saved, now, proc, out>>

NextLib ==
  \/ \E from \in LibWallets, to \in Wallets, amount \in LibAmounts,
        utxos \in CandidateLists :
       CallNewTransaction(from, to, amount, utxos)
  \/ CallVerify
  \/ \E i \in 1 .. 2, value \in TamperValues, owner \in TamperKeys :
       CallVerifyChanged(i, value, owner)
  \/ \E validators \in Registries :
       \E order \in Orders(DOMAIN validators) : CallProofOfStake(validators, order)
  \/ \E transactions \in GenesisTxLists : CallNewBlockchain(transactions)
  \/ \E pair \in LibWallets : CallNewWallet(pair)
  \/ \E b \in SerBlocks : CallSerializeBlock(b)
  \/ \E tx \in SerTransactions : CallSerializeTransaction(tx)
  \/ \E w \in SerWallets : CallSerializeWallet(w)
  \/ \E pair \in LibWallets, saveFails \in BOOLEAN : CreateWallet(pair, saveFails)

LibSpec == Init /\ [][NextLib]_vars

----------------------------------------------------------------------------
(* Properties *)

InputRefs(tx) == {UTXOKey(tx.Input[i].TransactionID, tx.Input[i].OutputIndex) : i \in DOMAIN tx.Input}

(* the value the UTXO set holds under a reference, 0 when it holds none *)
ValueInSet(us, input) ==
  LET key == UTXOKey(input.TransactionID, input.OutputIndex)
  IN IF key \in DOMAIN us THEN us[key].Value ELSE 0

RECURSIVE InputValue(_, _)
InputValue(us, inputs) ==
  IF inputs = <<>> THEN 0
  ELSE ValueInSet(us, Head(inputs)) + InputValue(us, Tail(inputs))

(* the value of the output of an accepted transaction that input refers to *)
RefValue(blocks, input) ==
  LET made == {t \in Range(ChainTxs(blocks)) :
                 /\ t.ID = input.TransactionID
                 /\ input.OutputIndex + 1 \in DOMAIN t.Output}
  IN IF made = {} THEN 0
     ELSE (CHOOSE t \in made : TRUE).Output[input.OutputIndex + 1].Value

RECURSIVE RefValues(_, _)
RefValues(blocks, inputs) ==
  IF inputs = <<>> THEN 0
  ELSE RefValue(blocks, Head(inputs)) + RefValues(blocks, Tail(inputs))

RECURSIVE Created(_)
Created(txs) ==
  IF txs = <<>> THEN 0 ELSE SumOutputs(Head(txs).Output) + Created(Tail(txs))

RECURSIVE Consumed(_, _)
Consumed(blocks, txs) ==
  IF txs = <<>> THEN 0
  ELSE RefValues(blocks, Head(txs).Input) + Consumed(blocks, Tail(txs))

RECURSIVE ReplayChain(_)
ReplayChain(blocks) ==
  IF blocks = <<>> THEN NewUTXOSet
  ELSE UpdateUTXOs(ReplayChain(SubSeq(blocks, 1, Len(blocks) - 1)), blocks[Len(blocks)])

MutationPhase == {"ab_update", "ab_append", "ab_write"}

(* C1: over the whole chain, no UTXO identity (transactionID, outputIndex) *)
(* is referenced as an input by more than one accepted transaction: a      *)
(* later AddBlock that references a consumed UTXO is rejected.             *)
NoDoubleSpend ==
  LET txs == ChainTxs(Blocks)
  IN \A i \in DOMAIN txs, j \in DOMAIN txs :
       i < j => InputRefs(txs[i]) \cap InputRefs(txs[j]) = {}

(* C2: when no request is being served, the values in the UTXO set sum to  *)
(* the output values of all accepted transactions minus the values of the  *)
(* outputs their inputs reference.                                         *)
UTXOConservation ==
  Quiet =>
    TotalValue(UTXOs) =
      Created(ChainTxs(Blocks)) - Consumed(Blocks, ChainTxs(Blocks))

(* C3: after any sequence of AddBlock calls, every block but the first has *)
(* PrevHash equal to the Hash of the block before it.                      *)
ChainIntegrity ==
  \A i \in DOMAIN Blocks : i > 1 => Blocks[i].PrevHash = Blocks[i - 1].Hash

ChainIntegrityWitness ==
  /\ Len(Blocks) >= 3
  /\ Blocks[3].PrevHash = Blocks[2].Hash
  /\ Blocks[2].Hash /= Blocks[1].Hash

(* C4: a transaction with at least one input that AddBlock has accepted    *)
(* (verified, about to be applied) consumes UTXOs worth at least the sum   *)
(* of its outputs.                                                         *)
NoValueCreation ==
  \A p \in Procs :
    (/\ proc[p].pc = "ab_update"
     /\ proc[p].k = 1
     /\ Len(proc[p].tx.Input) >= 1)
    => InputValue(UTXOs, proc[p].tx.Input) >= SumOutputs(proc[p].tx.Output)

(* C5: a call of AddBlock in which some transaction fails Verify leaves    *)
(* the chain and the UTXO set exactly as they were.                        *)
AllOrNothing ==
  [][out'.result = "panic" => (Blocks' = Blocks /\ UTXOs' = UTXOs)]_vars

(* a rejected list of two transactions, one of which verifies, after a     *)
(* block has been accepted                                                 *)
AllOrNothingWitness ==
  /\ out.result = "panic"
  /\ out.ntx = 2
  /\ out.nvalid = 1
  /\ Len(Blocks) >= 2
  /\ DOMAIN UTXOs /= {}

(* C6: a signature failure in AddBlock reaches the caller as a failure     *)
(* response, never as a panic.                                             *)
SignatureFailureIsResponse == out.result /= "panic"

(* C7: at most one AddBlock call is in its mutation phase at any time.     *)
SingleWriter ==
  Cardinality({p \in Procs : proc[p].pc \in MutationPhase}) <= 1

(* C8: two transfers of one sender that have both been accepted consume   *)
(* disjoint UTXOs, and when both started from the same ledger total the    *)
(* total of all balances is still that total.                              *)
ConcurrentTransfersSafe ==
  \A p \in Procs, q \in Procs :
    (/\ p /= q
     /\ proc[p].kind = "transfer" /\ proc[q].kind = "transfer"
     /\ proc[p].pc = "save" /\ proc[q].pc = "save"
     /\ proc[p].from = proc[q].from)
    => /\ InputRefs(proc[p].tx) \cap InputRefs(proc[q].tx) = {}
       /\ proc[p].sum0 = proc[q].sum0 => TotalValue(UTXOs) = proc[p].sum0

(* C9: every block of the chain links to the block before it, no two       *)
(* blocks share a PrevHash, and the block of every AddBlock call that has  *)
(* returned is in the chain.                                               *)
HashChainConcurrent ==
  /\ ChainIntegrity
  /\ \A i \in DOMAIN Blocks, j \in DOMAIN Blocks :
       i < j => Blocks[i].PrevHash /= Blocks[j].PrevHash
  /\ \A p \in Procs :
       proc[p].pc = "save" => \E i \in DOMAIN Blocks : Blocks[i] = proc[p].blk

(* C10: a balance read returns the balance of the UTXO set that the chain  *)
(* it runs against replays to: no block is seen half applied, or applied   *)
(* and not in the chain.                                                   *)
AtomicVisibility ==
  (out.result = "response" /\ out.kind = "balance" /\ out.status = 200)
  => out.bal = GetBalance(ReplayChain(Blocks), GetWallet(out.address).PublicKey)

TransferEffect ==
  \A p \in Procs :
    (/\ proc[p].kind = "transfer"
     /\ proc[p].pc = "save"
     /\ proc[p].from /= proc[p].to)
    => /\ Balances(UTXOs) =
            [w \in Wallets |->
               IF w = proc[p].from THEN proc[p].bal0[w] - proc[p].amount
               ELSE IF w = proc[p].to THEN proc[p].bal0[w] + proc[p].amount
               ELSE proc[p].bal0[w]]
       /\ Len(Blocks) = proc[p].len0 + 1
       /\ Blocks[Len(Blocks)].PrevHash = proc[p].tip0

(* C13: when a mint of n >= 1 units to A has been accepted, A holds n more *)
(* than when the request arrived.                                          *)
MintEffect ==
  \A p \in Procs :
    (/\ proc[p].kind = "mint"
     /\ proc[p].pc = "save"
     /\ proc[p].amount >= 1)
    => GetBalance(UTXOs, GetWallet(proc[p].to).PublicKey)
         = proc[p].bal0[proc[p].to] + proc[p].amount

(* C15: the inputs of the transaction a transfer of a positive amount has  *)
(* built from UTXOs of positive value are the inputs every enumeration     *)
(* order of the sender's UTXOs selects.                                    *)
DeterministicSelection ==
  \A p \in Procs :
    (/\ proc[p].kind = "transfer"
     /\ proc[p].pc = "ab_verify"
     /\ proc[p].amount >= 1
     /\ \A k \in DOMAIN UTXOs : UTXOs[k].Value >= 1)
    => \A utxos \in Orders(GetUTXOsForAddress(UTXOs, GetWallet(proc[p].from).PublicKey)) :
         SelectInputs(utxos, 1, GetWallet(proc[p].from).PublicKey,
                      proc[p].amount, 0, <<>>).inputs
           = TrimmedCopy(proc[p].tx).Input

(* the value of the candidates that the inputs of tx refer to *)
SelectedValue(tx, utxos) ==
  SumValues({u \in Range(utxos) :
               UTXOKey(u.TransactionID, u.OutputIndex) \in InputRefs(tx)})

(* C14: a transaction returned by NewTransaction has the recipient's       *)
(* output of value amount first, followed by one change output to the      *)
(* sender of value (selected input value - amount) exactly when the        *)
(* selected input value exceeds amount.                                    *)
OutputConstruction ==
  (call.fn = "NewTransaction" /\ ~call.ret.err)
  => LET tx == call.ret.tx
         selected == SelectedValue(tx, call.utxos)
     IN /\ tx.Output[1] = [Value |-> call.amount, PublicKey |-> call.toPublicKey]
        /\ Len(tx.Output) = IF selected > call.amount THEN 2 ELSE 1
        /\ selected > call.amount
             => tx.Output[2] = [Value |-> selected - call.amount,
                                PublicKey |-> call.fromWallet.PublicKey]

OutputConstructionWitness ==
  /\ call.fn = "NewTransaction"
  /\ ~call.ret.err
  /\ call.amount >= 1
  /\ Len(call.ret.tx.Input) = 2
  /\ SelectedValue(call.ret.tx, call.utxos) > call.amount
  /\ Len(call.ret.tx.Output) = 2

(* C16: the ID NewTransaction gave a transaction before signing is the     *)
(* hash of the signed transaction, of its trimmed copy and of the          *)
(* transaction with every signature removed.                               *)
IDStableUnderSigning ==
  (call.fn = "NewTransaction" /\ ~call.ret.err)
  => LET tx == call.ret.tx
         unsigned == [tx EXCEPT !.Input =
                        [i \in DOMAIN tx.Input |->
                           [tx.Input[i] EXCEPT !.Signature = NoSig]]]
     IN /\ HashTransaction(tx) = tx.ID
        /\ TrimmedCopy(tx).ID = tx.ID
        /\ HashTransaction(unsigned) = tx.ID
        /\ TrimmedCopy(unsigned).ID = tx.ID

IDStableUnderSigningWitness ==
  /\ call.fn = "NewTransaction"
  /\ ~call.ret.err
  /\ Len(call.ret.tx.Input) = 2
  /\ \A i \in DOMAIN call.ret.tx.Input : call.ret.tx.Input[i].Signature /= NoSig
  /\ TrimmedCopy(call.ret.tx).ID = call.ret.tx.ID

(* C17: in a transaction returned by NewTransaction with two or more       *)
(* inputs, all inputs carry the same signature value.                      *)
IdenticalSignatures ==
  (call.fn = "NewTransaction" /\ ~call.ret.err /\ Len(call.ret.tx.Input) >= 2)
  => \A i \in DOMAIN call.ret.tx.Input, j \in DOMAIN call.ret.tx.Input :
       call.ret.tx.Input[i].Signature = call.ret.tx.Input[j].Signature

(* C18: Verify returns false for a transaction that has an input whose     *)
(* public key or signature is not 64 bytes long, wherever that input is    *)
(* and whatever the other inputs are.                                      *)
VerifyFailsClosed ==
  call.fn = "Verify"
  => ((\E i \in DOMAIN call.tx.Input :
         \/ call.tx.Input[i].PublicKey.len /= KeyLen
         \/ call.tx.Input[i].Signature.len /= SigLen)
      => call.ret = FALSE)

(* the first input verifies, the second has a short signature *)
VerifyFailsClosedWitness ==
  /\ call.fn = "Verify"
  /\ Len(call.tx.Input) = 2
  /\ call.tx.Input[1].PublicKey.len = KeyLen
  /\ call.tx.Input[1].Signature.len = SigLen
  /\ call.tx.Input[1].Signature.msg = TrimmedCopy(call.tx).ID
  /\ call.tx.Input[2].Signature.len /= SigLen
  /\ call.ret = FALSE

(* C19: Verify returns false for a signed transaction (one with an input)  *)
(* in which the value or the owner key of an output has been changed       *)
(* after signing.                                                          *)
SignatureIntegrity ==
  (/\ call.fn = "Verify"
   /\ Len(call.signed.Input) >= 1
   /\ call.tx.Output /= call.signed.Output)
  => call.ret = FALSE

(* C20: ProofOfStake on a registry whose stakes sum to 0 does not panic.   *)
ZeroStakeFailsExplicitly ==
  (/\ call.fn = "ProofOfStake"
   /\ TotalStake(call.validators, DOMAIN call.validators) = 0)
  => ~call.ret.panic

(* the draws r in [0, totalStake) on which the walk in that order returns  *)
(* the key                                                                 *)
DrawsFor(validators, order, key) ==
  {r \in 0 .. (TotalStake(validators, DOMAIN validators) - 1) :
     LET ret == ProofOfStake(validators, order, r)
     IN ~ret.panic /\ ret.key = key}

(* C21: for a registry of positive total stake T and any walk order, the   *)
(* number of draws r in [0, T) on which ProofOfStake returns a validator   *)
(* equals that validator's stake (stated here for the registries whose    *)
(* stakes are all positive).                                               *)
StakeProportionality ==
  (/\ call.fn = "ProofOfStake"
   /\ call.validators /= <<>>
   /\ \A n \in DOMAIN call.validators : call.validators[n].Stake > 0)
  => \A n \in DOMAIN call.validators :
       Cardinality(DrawsFor(call.validators, call.order, call.validators[n].PublicKey))
         = call.validators[n].Stake

(* C22: for a fixed registry and a fixed draw, ProofOfStake returns the    *)
(* same validator whatever the order in which the registry is walked       *)
(* (stated here for the registries whose stakes are all positive).         *)
DeterministicWalk ==
  (/\ call.fn = "ProofOfStake"
   /\ call.validators /= <<>>
   /\ \A n \in DOMAIN call.validators : call.validators[n].Stake > 0)
  => \A order \in Orders(DOMAIN call.validators) :
       ProofOfStake(call.validators, order, call.random) = call.ret

(* C23: whenever a transfer or mint request has completed, with no other   *)
(* request under way, every block of the in-memory chain is in the block   *)
(* store.                                                                  *)
MemoryDurableConsistency ==
  (/\ Quiet
   /\ out.result = "response"
   /\ out.kind \in {"transfer", "mint"})
  => \A i \in DOMAIN Blocks : Blocks[i] \in saved

(* C24: when the node starts again after every request has completed and   *)
(* every block of the chain has been saved, the chain holds every block    *)
(* with transactions that the block store holds, and every wallet's        *)
(* balance is what it was before the restart.                              *)
RecoveryAfterRestart ==
  [][(/\ out'.result = "start"
      /\ Quiet
      /\ \A i \in DOMAIN Blocks : Blocks[i] \in saved)
      => /\ \A b \in saved :
              (b.Transactions /= <<>>) => (\E i \in DOMAIN Blocks' : Blocks'[i] = b)
         /\ Balances(UTXOs') = Balances(UTXOs)]_vars

(* C25: in every step the block sequence before the step is a prefix of    *)
(* the block sequence after it.                                            *)
AppendOnlyGrowth ==
  [][/\ Len(Blocks) <= Len(Blocks')
     /\ SubSeq(Blocks', 1, Len(Blocks)) = Blocks]_vars

(* the set after one transaction: what its inputs refer to is removed,     *)
(* then each of its outputs is put under (ID, position)                    *)
ReplayTx(us, tx) ==
  LET kept == DOMAIN us \ InputRefs(tx)
      made == {UTXOKey(tx.ID, i - 1) : i \in DOMAIN tx.Output}
  IN [k \in kept \cup made |->
        IF k \in made
        THEN [TransactionID |-> tx.ID, OutputIndex |-> k[2],
              Value |-> tx.Output[k[2] + 1].Value,
              PublicKey |-> tx.Output[k[2] + 1].PublicKey]
        ELSE us[k]]

RECURSIVE ReplayTxs(_, _)
ReplayTxs(us, txs) ==
  IF txs = <<>> THEN us ELSE ReplayTxs(ReplayTx(us, Head(txs)), Tail(txs))

(* the empty set, then every transaction of every block in chain order *)
ReplayProjection(blocks) == ReplayTxs(NewUTXOSet, ChainTxs(blocks))

(* C26: after NewBlockchain and any sequence of accepted blocks, the       *)
(* UTXOSet equals the replay of the chain from the empty set: for every    *)
(* block in chain order and every transaction in block order, its inputs   *)
(* removed, then its outputs added.                                        *)
ReplayProjectionHolds ==
  UTXOs = ReplayProjection(Blocks)

(* a chain of three blocks in which an accepted transaction has spent an   *)
(* output and left others unspent                                          *)
ReplayProjectionWitness ==
  /\ Len(Blocks) = 3
  /\ \E i \in DOMAIN ChainTxs(Blocks) : ChainTxs(Blocks)[i].Input /= <<>>
  /\ UTXOs /= NewUTXOSet
  /\ UTXOs = ReplayProjection(Blocks)

(* the outputs of a list of transactions, each as the entry AddUTXO makes  *)
(* of it                                                                   *)
OutputsOf(transactions) ==
  {[TransactionID |-> transactions[i].ID, OutputIndex |-> j - 1,
    Value |-> transactions[i].Output[j].Value,
    PublicKey |-> transactions[i].Output[j].PublicKey]
     : <<i, j>> \in {x \in (DOMAIN transactions) \X (1 .. MaxOutputIndex + 1) :
                       x[2] \in DOMAIN transactions[x[1]].Output}}

RECURSIVE OwnedValue(_, _, _)
OwnedValue(us, keys, publicKey) ==
  IF keys = {} THEN 0
  ELSE LET k == CHOOSE x \in keys : TRUE
       IN (IF us[k].PublicKey = publicKey THEN us[k].Value ELSE 0)
            + OwnedValue(us, keys \ {k}, publicKey)

(* C28: the balance a balance request answers for a wallet is the sum of   *)
(* the values of exactly the UTXOSet entries owned by the wallet's public  *)
(* key, and the request leaves the chain and the UTXOSet as they were.     *)
BalanceDefinition ==
  [][(/\ out'.result = "response"
      /\ out'.kind = "balance"
      /\ out'.status = 200)
      => /\ out'.bal = OwnedValue(UTXOs, DOMAIN UTXOs, GetWallet(out'.address).PublicKey)
         /\ Blocks' = Blocks
         /\ UTXOs' = UTXOs]_vars

(* a balance answered for a wallet that owns an entry while another        *)
(* wallet owns one too                                                     *)
BalanceDefinitionWitness ==
  /\ out.result = "response"
  /\ out.kind = "balance"
  /\ out.status = 200
  /\ out.bal >= 1
  /\ \E k \in DOMAIN UTXOs : UTXOs[k].PublicKey = GetWallet(out.address).PublicKey
  /\ \E k \in DOMAIN UTXOs : UTXOs[k].PublicKey /= GetWallet(out.address).PublicKey

(* C29: the PublicKey of every wallet NewWallet returns is exactly 64      *)
(* bytes long, whatever key pair was generated.                            *)
FixedPublicKeyForm ==
  call.fn = "NewWallet" => call.ret.PublicKey.len = KeyLen

SerializeCalls == {"Block.Serialize", "Transaction.Serialize", "Wallet.Serialize"}

(* C30: Deserialize(Serialize(x)) equals x for every Block, Transaction    *)
(* and Wallet x, those with empty transaction lists, empty input lists or  *)
(* empty byte fields included.                                             *)
SerializationRoundTrip ==
  call.fn \in SerializeCalls => call.ret = call.x

(* C38: on a registry of non-negative stakes whose total is positive, for  *)
(* every walk order and every draw in [0, total), ProofOfStake does not    *)
(* panic and returns the public key of a validator of the registry.        *)
SelectionSucceeds ==
  (/\ call.fn = "ProofOfStake"
   /\ TotalStake(call.validators, DOMAIN call.validators) > 0)
  => /\ ~call.ret.panic
     /\ \E n \in DOMAIN call.validators : call.validators[n].PublicKey = call.ret.key

(* a positive draw on which the walk passes the first validator and        *)
(* returns a later one                                                     *)
SelectionSucceedsWitness ==
  /\ call.fn = "ProofOfStake"
  /\ Len(call.order) >= 2
  /\ call.random >= 1
  /\ ~call.ret.panic
  /\ call.ret.key /= call.validators[call.order[1]].PublicKey

(* C39: on a registry whose total stake is positive, for every walk order  *)
(* and every draw in [0, total), the validator ProofOfStake returns has a  *)
(* positive stake.                                                         *)
ZeroStakeNeverSelected ==
  (/\ call.fn = "ProofOfStake"
   /\ TotalStake(call.validators, DOMAIN call.validators) > 0
   /\ ~call.ret.panic)
  => \A n \in DOMAIN call.validators :
       (call.validators[n].PublicKey = call.ret.key) => (call.validators[n].Stake > 0)

(* C31: the response of a wallet creation does not carry the private-key   *)
(* bytes of the wallet.                                                    *)
PrivateKeyConfidentiality ==
  call.fn = "handleCreateWallet"
  => FromHex(call.ret.privateKey) /= call.wallet.PrivateKeyBytes

RECURSIVE JoinedIDs(_)
JoinedIDs(transactions) ==
  IF transactions = <<>> THEN <<>>
  ELSE <<<<"hash", Head(transactions).ID>>>> \o JoinedIDs(Tail(transactions))

(* the hash of the block's PrevHash, the IDs of its transactions one after *)
(* the other, and its Timestamp                                            *)
BoundHash(b) ==
  <<"blockhash",
    (IF b.PrevHash = <<>> THEN <<>> ELSE <<<<"hash", b.PrevHash>>>>)
    \o JoinedIDs(b.Transactions) \o <<<<"time", b.Timestamp>>>> >>

(* C32: every block of the chain, at every time after it was appended,     *)
(* has Hash equal to the hash of its PrevHash, the IDs of its transactions *)
(* concatenated in order and its Timestamp, and has Nonce 0.               *)
BlockHashBinding ==
  \A i \in DOMAIN Blocks :
    /\ Blocks[i].Hash = BoundHash(Blocks[i])
    /\ Blocks[i].Nonce = 0

(* a block of two different transactions, with a block appended after it   *)
BlockHashBindingWitness ==
  /\ Len(Blocks) = 3
  /\ Len(Blocks[2].Transactions) = 2
  /\ Blocks[2].Transactions[1].ID /= Blocks[2].Transactions[2].ID
  /\ Blocks[2].Hash = BoundHash(Blocks[2])

(* C33: right after AddBlock has returned a block, the UTXOSet holds no    *)
(* entry under a (transactionID, outputIndex) that an input of a           *)
(* transaction of that block refers to, whatever the order of the          *)
(* transactions in the block.                                              *)
SpentOutputsRemoved ==
  (/\ out.result = "response"
   /\ out.kind = "addblock")
  => \A i \in DOMAIN Blocks[Len(Blocks)].Transactions :
       InputRefs(Blocks[Len(Blocks)].Transactions[i]) \cap DOMAIN UTXOs = {}

(* the candidates owned by publicKey, in scan order *)
RECURSIVE OwnedCandidates(_, _)
OwnedCandidates(utxos, publicKey) ==
  IF utxos = <<>> THEN <<>>
  ELSE (IF Head(utxos).PublicKey = publicKey THEN <<Head(utxos)>> ELSE <<>>)
         \o OwnedCandidates(Tail(utxos), publicKey)

(* the total value of the first m of them *)
RECURSIVE PrefixValue(_, _)
PrefixValue(owned, m) ==
  IF m = 0 THEN 0 ELSE PrefixValue(owned, m - 1) + owned[m].Value

(* C34: the inputs of a transaction NewTransaction returns are exactly the *)
(* shortest prefix, in scan order, of the candidates owned by the sender   *)
(* whose total value is at least the amount: each input refers to the      *)
(* owned candidate at its position and carries the sender's key, and       *)
(* every shorter prefix totals less than the amount.                       *)
MinimalPrefixSelection ==
  (call.fn = "NewTransaction" /\ ~call.ret.err)
  => LET owned == OwnedCandidates(call.utxos, call.fromWallet.PublicKey)
         inputs == call.ret.tx.Input
     IN /\ Len(inputs) <= Len(owned)
        /\ \A i \in DOMAIN inputs :
             /\ inputs[i].TransactionID = owned[i].TransactionID
             /\ inputs[i].OutputIndex = owned[i].OutputIndex
             /\ inputs[i].PublicKey = call.fromWallet.PublicKey
        /\ PrefixValue(owned, Len(inputs)) >= call.amount
        /\ \A m \in 0 .. (Len(inputs) - 1) : PrefixValue(owned, m) < call.amount

(* C36: a transaction that NewTransaction returned without error for a     *)
(* wallet made by NewWallet passes Verify, whatever signature the signer   *)
(* produced (stated here for the wallets whose public key is 64 bytes      *)
(* long and the transfers of a positive amount).                           *)
SignVerifyRoundTrip ==
  (/\ call.fn = "Verify"
   /\ call.tx = call.signed
   /\ \A i \in DOMAIN call.tx.Output : call.tx.Output[i].Value >= 1
   /\ \A i \in DOMAIN call.tx.Input : call.tx.Input[i].PublicKey.len = KeyLen)
  => call.ret = TRUE

(* C37: after any sequence of mint and transfer requests, whatever integer *)
(* amounts they carry, every entry of the UTXOSet has a value of 0 or      *)
(* more.                                                                   *)
NonNegativeValues ==
  \A k \in DOMAIN UTXOs : UTXOs[k].Value >= 0

(* C35: a step of AddBlock removes an entry from the UTXOSet only for      *)
(* inputs that carry the owner key recorded in the entry: every input of   *)
(* the appended block that refers to a removed entry has the entry's       *)
(* PublicKey.                                                              *)
SpendAuthorisation ==
  [][\A k \in DOMAIN UTXOs :
       (k \notin DOMAIN UTXOs')
       => \A i \in DOMAIN Blocks'[Len(Blocks')].Transactions :
            LET tx == Blocks'[Len(Blocks')].Transactions[i]
            IN \A j \in DOMAIN tx.Input :
                 (UTXOKey(tx.Input[j].TransactionID, tx.Input[j].OutputIndex) = k)
                 => tx.Input[j].PublicKey = UTXOs[k].PublicKey]_vars

====
